---- MODULE Spec2Model ----
(***************************************************************************)
(* Model of croo/cromwell_metadata.py: the parent predicate                *)
(* is_parent_cmnode, the scanner find_files_in_dict and the construction   *)
(* of a CromwellMetadata object (output-definition lookup, recursive       *)
(* parse of the calls, parse of the input JSON).                           *)
(*                                                                         *)
(* Python values are represented as follows.                               *)
(*   str            a sequence of one-character strings, so that split,    *)
(*                  join, startswith, strip and the regular expression     *)
(*                  are computed character by character                    *)
(*   None / value   None == <<>>, Some(x) == <<x>>                         *)
(*   tuple, list    a sequence                                             *)
(*   dict           a sequence of [k, v] items in insertion order          *)
(*   JSON value     a record [kind, items, val], see Dict, List, Str       *)
(***************************************************************************)
EXTENDS Integers, Sequences, FiniteSets, TLC

VARIABLES
    pc,          \* position in the running code
    metadata,    \* self._metadata_json (top-level fields that are read)
    input_json,  \* self._input_json
    wdl_str,     \* self._wdl_str
    out_def,     \* self._out_def_json_file
    stack,       \* activation records of __parse_calls, outermost first
    cur,         \* the loop variable c of `for c in call_list`
    nodes,       \* the nodes handed to self._dag.add_node, in order
    left,        \* elements of the input that may still be read
    scan_d,      \* argument d of a direct call of find_files_in_dict
    scan_files,  \* its return value
    n1,          \* arguments of a direct call of is_parent_cmnode
    n2,
    ret,         \* its outcome
    wdl_doc      \* what WDL.parse_document makes of the workflow source, and
                 \* the comment value each source line is written to carry

vars == <<pc, metadata, input_json, wdl_str, out_def, stack, cur, nodes, left,
          scan_d, scan_files, n1, n2, ret, wdl_doc>>

---------------------------------------------------------------------------
(* Bounds of the model *)

\* nesting depth of the structures handed to find_files_in_dict directly
MaxDepth == 3

\* number of calls and invocation records read from a calls document
MaxElems == 5

\* number of lines of the workflow source text
MaxLines == 2

---------------------------------------------------------------------------
(* Python values *)

None == <<>>

Some(x) == <<x>>

IsNone(o) == o = <<>>

\* x.startswith(prefix)
startswith(s, prefix) ==
    /\ Len(s) >= Len(prefix)
    /\ SubSeq(s, 1, Len(prefix)) = prefix

\* position of the first occurrence of character c in s, 0 when there is none
IndexOf(s, c) ==
    IF \E i \in 1..Len(s) : s[i] = c
    THEN CHOOSE i \in 1..Len(s) : s[i] = c /\ \A j \in 1..(i - 1) : s[j] # c
    ELSE 0

RECURSIVE split(_, _)
\* s.split(sep) for a one-character separator
split(s, sep) ==
    LET i == IndexOf(s, sep)
    IN  IF i = 0 THEN <<s>>
        ELSE <<SubSeq(s, 1, i - 1)>> \o split(SubSeq(s, i + 1, Len(s)), sep)

RECURSIVE join(_, _)
\* sep.join(parts)
join(parts, sep) ==
    IF parts = <<>> THEN <<>>
    ELSE IF Len(parts) = 1 THEN parts[1]
    ELSE parts[1] \o <<sep>> \o join(Tail(parts), sep)

\* \s of the re module, as far as the modelled texts use it
IsSpace(c) == c \in {" ", "\t"}

\* s.strip()
strip(s) ==
    IF \A i \in 1..Len(s) : IsSpace(s[i]) THEN <<>>
    ELSE LET a == CHOOSE i \in 1..Len(s) :
                      ~IsSpace(s[i]) /\ \A j \in 1..(i - 1) : IsSpace(s[j])
             b == CHOOSE i \in 1..Len(s) :
                      ~IsSpace(s[i]) /\ \A j \in (i + 1)..Len(s) : IsSpace(s[j])
         IN  SubSeq(s, a, b)

---------------------------------------------------------------------------
(* JSON values *)

Dict(items) == [kind |-> "dict", items |-> items, val |-> <<>>]

List(elems) ==
    [kind |-> "list",
     items |-> [i \in 1..Len(elems) |-> [k |-> <<>>, v |-> elems[i]]],
     val |-> <<>>]

Str(s) == [kind |-> "str", items |-> <<>>, val |-> s]

\* a scalar that is not a string (a number, a boolean, null)
Number == [kind |-> "number", items |-> <<>>, val |-> <<>>]

Item(k, v) == [k |-> k, v |-> v]

\* AutoURI(d).is_valid: an absolute path or a URL. The modelled texts hold
\* absolute paths ("/...") and plain words.
IsValidURI(s) == Len(s) > 0 /\ s[1] = "/"

---------------------------------------------------------------------------
(* find_files_in_dict *)

RECURSIVE find_files_in_dict(_, _, _)
RECURSIVE FindInItems(_, _, _, _)

\* the two for loops of find_files_in_dict, from item i on
FindInItems(d, i, parent, list_idx) ==
    IF i > Len(d.items) THEN <<>>
    ELSE (IF d.kind = "dict"
          THEN find_files_in_dict(d.items[i].v, Append(parent, d.items[i].k), list_idx)
          ELSE find_files_in_dict(d.items[i].v, parent, Append(list_idx, i - 1)))
         \o FindInItems(d, i + 1, parent, list_idx)

\* find_files_in_dict without the (-1,) of line 65
find_files_no_sentinel(d, parent, list_idx) ==
    IF d.kind \in {"dict", "list"} THEN FindInItems(d, 1, parent, list_idx)
    ELSE IF d.kind = "str" /\ IsValidURI(d.val)
         THEN << <<join(parent, "."), d.val, list_idx>> >>
         ELSE <<>>

find_files_in_dict(d, parent, list_idx) ==
    IF d.kind \in {"dict", "list"} THEN FindInItems(d, 1, parent, list_idx)
    ELSE IF d.kind = "str" /\ IsValidURI(d.val)
         THEN << <<join(parent, "."), d.val,
                   IF list_idx # <<>> THEN list_idx ELSE <<-1>> >> >>
         ELSE <<>>

---------------------------------------------------------------------------
(* CMNode and is_parent_cmnode *)

CMNode(type, shard_idx, task_name, output_name, output_path, all_outputs, all_inputs) ==
    [type |-> type, shard_idx |-> shard_idx, task_name |-> task_name,
     output_name |-> output_name, output_path |-> output_path,
     all_outputs |-> all_outputs, all_inputs |-> all_inputs]

\* [path for _, path, _ in files], as a set
Paths(files) == {files[i][2] : i \in 1..Len(files)}

\* is_parent_cmnode raising for every pair that is not (task, output) or
\* (output, task)
is_parent_cmnode_raising(a, b) ==
    IF a.type = "task" /\ b.type = "output"
    THEN (IF a.task_name = b.task_name /\ a.shard_idx = b.shard_idx
          THEN "True" ELSE "False")
    ELSE IF a.type = "output" /\ b.type = "task"
    THEN (IF ~IsNone(b.all_inputs) /\ a.output_path[1] \in Paths(b.all_inputs[1])
          THEN "True" ELSE "False")
    ELSE "ValueError"

\* is_parent_cmnode asking an output and the task it feeds for the same
\* shard_idx
is_parent_cmnode_aligned(a, b) ==
    IF a.type \notin {"task", "output"} \/ b.type \notin {"task", "output"}
    THEN "ValueError"
    ELSE IF a.type = "task" /\ b.type = "output"
    THEN (IF a.task_name = b.task_name /\ a.shard_idx = b.shard_idx
          THEN "True" ELSE "False")
    ELSE IF a.type = "output" /\ b.type = "task"
    THEN (IF /\ ~IsNone(b.all_inputs)
             /\ a.output_path[1] \in Paths(b.all_inputs[1])
             /\ a.shard_idx = b.shard_idx
          THEN "True" ELSE "False")
    ELSE "False"

\* Outcome of is_parent_cmnode(a, b): "True", "False", or "ValueError" when
\* the ValueError of line 39 is raised.
is_parent_cmnode(a, b) ==
    IF a.type \notin {"task", "output"} \/ b.type \notin {"task", "output"}
    THEN "ValueError"
    ELSE IF a.type = "task" /\ b.type = "output"
    THEN (IF a.task_name = b.task_name /\ a.shard_idx = b.shard_idx
          THEN "True" ELSE "False")
    ELSE IF a.type = "output" /\ b.type = "task"
    THEN (IF ~IsNone(b.all_inputs) /\ a.output_path[1] \in Paths(b.all_inputs[1])
          THEN "True" ELSE "False")
    ELSE "False"

---------------------------------------------------------------------------
(* The output-definition lookup *)

\* CromwellMetadata.WDL_WORKFLOW_META_OUT_DEF
WDL_WORKFLOW_META_OUT_DEF == "croo_out_def"

\* the literals of RE_PATTERN_WDL_COMMENT_OUT_DEF_JSON
LitCROO == <<"C", "R", "O", "O">>

LitOutDef == <<"o", "u", "t", "_", "d", "e", "f">>

\* where a greedy \s* that starts at position i of s ends
SkipSpaces(s, i) ==
    CHOOSE j \in i..(Len(s) + 1) :
        /\ \A k \in i..(j - 1) : IsSpace(s[k])
        /\ (j = Len(s) + 1 \/ ~IsSpace(s[j]))

\* s has the literal lit at position i
HasAt(s, i, lit) == startswith(SubSeq(s, i, Len(s)), lit)

\* re.findall(r'^\s*\#\s*CROO\s+out_def\s(.+)', line): the list of the values
\* of the group, which has at most one element since the pattern is anchored
re_findall(line) ==
    LET i1 == SkipSpaces(line, 1)
        i2 == SkipSpaces(line, i1 + 1)
        i3 == i2 + Len(LitCROO)
        i4 == SkipSpaces(line, i3)
        i5 == i4 + Len(LitOutDef)
    IN  IF /\ HasAt(line, i1, <<"#">>)
           /\ HasAt(line, i2, LitCROO)
           /\ i3 <= Len(line) /\ IsSpace(line[i3])
           /\ HasAt(line, i4, LitOutDef)
           /\ i5 <= Len(line) /\ IsSpace(line[i5])
           /\ i5 + 1 <= Len(line)
        THEN <<SubSeq(line, i5 + 1, Len(line))>>
        ELSE <<>>

RECURSIVE FindValInLines(_)
\* the loop of __find_val_from_wdl over the lines
FindValInLines(lines) ==
    IF lines = <<>> THEN <<>>
    ELSE LET r == re_findall(Head(lines))
         IN  (IF Len(r) > 0 /\ Len(strip(r[1])) > 0 THEN <<strip(r[1])>> ELSE <<>>)
             \o FindValInLines(Tail(lines))

\* __find_val_from_wdl(regex_val)
find_val_from_wdl(text) == FindValInLines(split(text, "\n"))

\* The value of key in a meta mapping: Some(v), or None when the key is not in
\* it; v is itself None for a WDL null.
MetaGet(meta, key) ==
    IF \E i \in 1..Len(meta) : meta[i].k = key
    THEN Some(meta[CHOOSE i \in 1..Len(meta) : meta[i].k = key].v)
    ELSE None

\* __find_workflow_meta without its try/except
find_workflow_meta_uncaught(doc, key) ==
    IF doc.result # "ok" THEN [exc |-> TRUE, val |-> None]
    ELSE IF ~IsNone(MetaGet(doc.meta, key))
    THEN [exc |-> FALSE, val |-> MetaGet(doc.meta, key)[1]]
    ELSE [exc |-> FALSE, val |-> None]

\* __find_workflow_meta(key) on the outcome doc of parse_document: a failure
\* of parse_document, or the AttributeError of wdl.workflow being None, is
\* caught. exc says whether an exception leaves the method.
find_workflow_meta(doc, key) ==
    IF doc.result # "ok" THEN [exc |-> FALSE, val |-> None]
    ELSE IF ~IsNone(MetaGet(doc.meta, key))
    THEN [exc |-> FALSE, val |-> MetaGet(doc.meta, key)[1]]
    ELSE [exc |-> FALSE, val |-> None]

\* __find_out_def_from_wdl looking at the source comments first
find_out_def_comment_first(doc, text) ==
    LET m == find_workflow_meta(doc, WDL_WORKFLOW_META_OUT_DEF)
        r == find_val_from_wdl(text)
    IN  IF Len(r) > 0 THEN [exc |-> FALSE, val |-> Some(r[1])] ELSE m

\* __find_out_def_from_wdl()
find_out_def_from_wdl(doc, text) ==
    LET m == find_workflow_meta(doc, WDL_WORKFLOW_META_OUT_DEF)
        r == find_val_from_wdl(text)
    IN  IF m.exc THEN m
        ELSE IF ~IsNone(m.val) THEN m
        ELSE [exc |-> FALSE, val |-> IF Len(r) > 0 THEN Some(r[1]) ELSE None]

---------------------------------------------------------------------------
(* __parse_calls *)

\* an activation record of __parse_calls: its two chain arguments, the keys of
\* calls the loop has been through (a mapping holds each key once), the loop
\* variable call_name, the alias computed from it, and where it returns to
Frame(parent_workflows, parent_workflow_shard_indices, return_to) ==
    [parent_workflows |-> parent_workflows,
     parent_workflow_shard_indices |-> parent_workflow_shard_indices,
     seen |-> {},
     call_name |-> <<>>,
     subworkflow_or_task_alias |-> None,
     return_to |-> return_to]

Top == stack[Len(stack)]

SetTop(f) == [stack EXCEPT ![Len(stack)] = f]

\* lines 172-177: the ValueError for a missing chain
ChainRejected(parent_workflows) == parent_workflows = <<>>

\* the alias for a call name, with the check of line 186 left out
SplitCallName_unchecked(call_name) ==
    LET split_call_name == split(call_name, ".")
    IN  IF Len(split_call_name) = 2
        THEN [exc |-> FALSE, alias |-> Some(split_call_name[2])]
        ELSE IF Len(split_call_name) = 1
        THEN [exc |-> FALSE, alias |-> None]
        ELSE [exc |-> TRUE, alias |-> None]

\* lines 180-193: the alias for a call name, or the ValueError
SplitCallName(call_name) ==
    LET split_call_name == split(call_name, ".")
    IN  IF Len(split_call_name) = 2
        THEN [exc |-> FALSE, alias |-> Some(split_call_name[2])]
        ELSE IF Len(split_call_name) = 1
        THEN (IF ~startswith(call_name, <<"S", "c", "a", "t", "t", "e", "r", "A", "t">>)
              THEN [exc |-> TRUE, alias |-> None]
              ELSE [exc |-> FALSE, alias |-> None])
        ELSE [exc |-> TRUE, alias |-> None]

\* the truth value of an entry of the chain: `if wf`
Truthy(wf) == ~IsNone(wf) /\ wf[1] # <<>>

\* lines 209-216
FullCallName(parent_workflows, alias) ==
    LET none_free_parent_workflows == SelectSeq(Append(parent_workflows, alias), Truthy)
    IN  join([i \in 1..Len(none_free_parent_workflows) |->
                 none_free_parent_workflows[i][1]], ".")

\* lines 219-225: the files of c[key], None when c has no such key
FilesOf(field) ==
    IF IsNone(field) THEN None ELSE Some(find_files_in_dict(field[1], <<>>, <<>>))

\* `tuple(files) if files else None`
TupleOrNone(files) ==
    IF IsNone(files) \/ files = Some(<<>>) THEN None ELSE files

\* the task node of a leaf record with in_files and out_files exchanged
TaskNode_exchanged(frame, c) ==
    CMNode("task",
           Append(frame.parent_workflow_shard_indices, c.shardIndex),
           Some(FullCallName(frame.parent_workflows, frame.subworkflow_or_task_alias)),
           None, None,
           TupleOrNone(FilesOf(c.inputs)),
           TupleOrNone(FilesOf(c.outputs)))

\* lines 228-236: the task node of a leaf record
TaskNode(frame, c) ==
    CMNode("task",
           Append(frame.parent_workflow_shard_indices, c.shardIndex),
           Some(FullCallName(frame.parent_workflows, frame.subworkflow_or_task_alias)),
           None, None,
           TupleOrNone(FilesOf(c.outputs)),
           TupleOrNone(FilesOf(c.inputs)))

\* lines 239-251: the output nodes of a leaf record
OutputNodes(frame, c) ==
    LET out_files == FilesOf(c.outputs)
    IN  IF IsNone(out_files) THEN <<>>
        ELSE [i \in 1..Len(out_files[1]) |->
                 CMNode("output",
                        Append(frame.parent_workflow_shard_indices, c.shardIndex),
                        Some(FullCallName(frame.parent_workflows,
                                          frame.subworkflow_or_task_alias)),
                        Some(out_files[1][i][1]),
                        Some(out_files[1][i][2]),
                        None, None)]

\* lines 200-206: the activation record of the recursive call
SubFrame(frame, c) ==
    Frame(Append(frame.parent_workflows, frame.subworkflow_or_task_alias),
          Append(frame.parent_workflow_shard_indices, c.shardIndex),
          "for_record")

\* the recursive call entered with the chains kept in one accumulator that
\* the caller goes on using
PushFrame_shared(stk, c) ==
    Append([stk EXCEPT ![Len(stk)].parent_workflows =
                           Append(@, stk[Len(stk)].subworkflow_or_task_alias),
                       ![Len(stk)].parent_workflow_shard_indices =
                           Append(@, c.shardIndex)],
           SubFrame(stk[Len(stk)], c))

\* the stack after the recursive call of lines 200-206 is entered
PushFrame(stk, c) == Append(stk, SubFrame(stk[Len(stk)], c))

\* the nodes of the input JSON without the position of the file in its lists
InputNodes_unindexed(doc) ==
    IF IsNone(doc) THEN <<>>
    ELSE LET files == find_files_in_dict(doc[1], <<>>, <<>>)
         IN  [i \in 1..Len(files) |->
                 CMNode("output", <<-1>>, None,
                        Some(files[i][1]), Some(files[i][2]), None, None)]

\* lines 129-140: the nodes of the input JSON
InputNodes(doc) ==
    IF IsNone(doc) THEN <<>>
    ELSE LET files == find_files_in_dict(doc[1], <<>>, <<>>)
         IN  [i \in 1..Len(files) |->
                 CMNode("output", files[i][3], None,
                        Some(files[i][1]), Some(files[i][2]), None, None)]

---------------------------------------------------------------------------
(* The documents the model reads *)

P1 == <<"/", "p">>

P2 == <<"/", "q">>

P3 == <<"/", "r">>

NotAPath == <<"n">>

Ka == <<"a">>

Kb == <<"b">>

\* call names: workflow.alias, the same with an empty alias ("wf."), a
\* temporary scatter subworkflow, and the two malformed shapes
CallNames ==
    { <<"w", ".", "a">>, <<"w", "f", ".">>,
      <<"S", "c", "a", "t", "t", "e", "r", "A", "t", "1">>,
      <<"x">>, <<"w", ".", "a", ".", "b">> }

ShardIndices == {-1, 0}

\* the inputs and outputs of a leaf record
LeafFields ==
    { [inputs |-> None, outputs |-> None],
      [inputs |-> Some(Dict(<<Item(Ka, Str(P1))>>)),
       outputs |-> Some(Dict(<<Item(Ka, List(<<Str(P2), Str(NotAPath)>>)),
                               Item(Kb, Str(P3))>>))],
      [inputs |-> Some(Dict(<<Item(Kb, Str(NotAPath))>>)),
       outputs |-> Some(Dict(<<>>))] }

\* the invocation records
Records ==
    { [shardIndex |-> i, subWorkflowMetadata |-> FALSE,
       inputs |-> f.inputs, outputs |-> f.outputs] : i \in ShardIndices, f \in LeafFields }
    \cup
    { [shardIndex |-> i, subWorkflowMetadata |-> TRUE,
       inputs |-> None, outputs |-> None] : i \in ShardIndices }

NoRecord == [shardIndex |-> -1, subWorkflowMetadata |-> FALSE,
             inputs |-> None, outputs |-> None]

\* the decoded inputs documents. json.loads is not modelled: the document is
\* given as the value it decodes to.
InputDocs ==
    { Dict(<<Item(Ka, Str(P1)), Item(Kb, Number)>>),
      Dict(<<Item(Ka, List(<<Str(NotAPath), Str(P1), List(<<Str(P2)>>)>>)),
             Item(Kb, Dict(<<Item(Ka, Str(P3))>>))>>) }

\* source lines, each with the value the comment convention gives it
LineTable ==
    { [text |-> <<"#", " ", "C", "R", "O", "O", " ", "o", "u", "t", "_", "d", "e", "f", " ", "u">>,
       val |-> Some(<<"u">>)],
      [text |-> <<" ", "#", "C", "R", "O", "O", "\t", " ", "o", "u", "t", "_", "d", "e", "f", " ", " ", "v", " ">>,
       val |-> Some(<<"v">>)],
      [text |-> <<"#", " ", "C", "R", "O", "O", " ", "o", "u", "t", "_", "d", "e", "f", " ", " ">>,
       val |-> None],
      [text |-> <<"#", " ", "C", "R", "O", "O", " ", "o", "u", "t", "_", "d", "e", "f", "u">>,
       val |-> None],
      [text |-> <<"w", " ", "#", " ", "C", "R", "O", "O", " ", "o", "u", "t", "_", "d", "e", "f", " ", "u">>,
       val |-> None],
      [text |-> <<>>, val |-> None] }

RECURSIVE SeqsUpTo(_, _)
\* the sequences over S of length at most n
SeqsUpTo(S, n) ==
    IF n = 0 THEN {<<>>}
    ELSE LET shorter == SeqsUpTo(S, n - 1)
         IN  shorter \cup {Append(q, x) : q \in shorter, x \in S}

\* the workflow source made of the given lines
SourceText(lines) == join([i \in 1..Len(lines) |-> lines[i].text], "\n")

Val == <<"m">>

\* what parse_document makes of a source: a failure, a document without a
\* workflow, or a workflow with a meta section
ParseOutcomes ==
    { [result |-> "error", meta |-> <<>>],
      [result |-> "no_workflow", meta |-> <<>>],
      [result |-> "ok", meta |-> <<>>],
      [result |-> "ok", meta |-> <<Item("author", Some(<<"x">>))>>],
      [result |-> "ok", meta |-> <<Item("author", Some(<<"x">>)),
                                   Item("croo_out_def", Some(Val))>>],
      [result |-> "ok", meta |-> <<Item("croo_out_def", None)>>] }

ParseOutcome_ok == [result |-> "ok", meta |-> <<>>]

WdlDoc(outcome, lines) ==
    [result |-> outcome.result, meta |-> outcome.meta, lines |-> lines]

NoDoc == WdlDoc([result |-> "error", meta |-> <<>>], <<>>)

\* the metadata document: workflowName and, for a top-level run, the
\* submittedFiles block
Metadata(name, submitted) == [workflowName |-> name, submittedFiles |-> submitted]

Submitted(inputs, workflow) == Some([inputs |-> inputs, workflow |-> workflow])

W == <<"w">>

\* the structures handed to find_files_in_dict directly: a scalar or an
\* empty container, wrapped again and again in a mapping or a sequence, alone
\* or beside a sibling
Siblings == {Str(P2), Str(NotAPath), List(<<Str(P3)>>)}

Wrap(t) ==
    {Dict(<<Item(k, t)>>) : k \in {Ka, Kb}}
    \cup {Dict(<<Item(Ka, t), Item(Kb, s)>>) : s \in Siblings}
    \cup {Dict(<<Item(Kb, s), Item(Ka, t)>>) : s \in Siblings}
    \cup {List(<<t>>)}
    \cup {List(<<t, s>>) : s \in Siblings}
    \cup {List(<<s, t>>) : s \in Siblings}

Scalars == {Str(P1), Str(NotAPath), Number, Dict(<<>>), List(<<>>)}

\* the nodes handed to is_parent_cmnode directly
Files1 == << <<Ka, P1, <<-1>> >> >>

Files2 == << <<Ka, P2, <<0>> >>, <<Kb, P1, <<1>> >> >>

TaskNames == {<<"w", ".", "a">>, <<"w", ".", "b">>}

ShardIdxs == {<<-1>>, <<0>>, <<0, -1>>}

PredNodes ==
    { CMNode("task", sh, Some(t), None, None, None, i) :
        sh \in ShardIdxs, t \in TaskNames, i \in {None, Some(Files1), Some(Files2)} }
    \cup
    { CMNode("output", sh, t, Some(Ka), Some(path), None, None) :
        sh \in ShardIdxs, t \in {None} \cup {Some(x) : x \in TaskNames},
        path \in {P1, P2, P3} }
    \cup
    { CMNode("input", <<-1>>, None, Some(Ka), Some(P1), None, None) }

NoNode == CMNode("none", <<>>, None, None, None, None, None)

---------------------------------------------------------------------------
(* CromwellMetadata.__init__ and the steps of __parse_calls *)

\* lines 80-87 and 96-105, for a document with a submittedFiles block
InitSubmitted ==
    /\ pc = "init"
    /\ ~IsNone(metadata.submittedFiles)
    /\ input_json' = Some(metadata.submittedFiles[1].inputs)
    /\ wdl_str' = Some(metadata.submittedFiles[1].workflow)
    /\ LET r == find_out_def_from_wdl(wdl_doc, metadata.submittedFiles[1].workflow)
       IN  IF r.exc
           THEN /\ pc' = "Exception"
                /\ UNCHANGED <<out_def, stack>>
           ELSE /\ out_def' = r.val
                /\ stack' = <<Frame(<<Some(metadata.workflowName)>>, <<>>, "parse_input")>>
                /\ pc' = "parse_calls"
    /\ UNCHANGED <<metadata, cur, nodes, left, scan_d, scan_files, n1, n2, ret, wdl_doc>>

\* lines 88-105, for a document without one
InitDetached ==
    /\ pc = "init"
    /\ IsNone(metadata.submittedFiles)
    /\ input_json' = None
    /\ wdl_str' = None
    /\ out_def' = None
    /\ stack' = <<Frame(<<Some(metadata.workflowName)>>, <<>>, "parse_input")>>
    /\ pc' = "parse_calls"
    /\ UNCHANGED <<metadata, cur, nodes, left, scan_d, scan_files, n1, n2, ret, wdl_doc>>

\* lines 172-177: entry of __parse_calls
ParseCallsEntry ==
    /\ pc = "parse_calls"
    /\ pc' = IF ChainRejected(Top.parent_workflows) THEN "ValueError" ELSE "for_call"
    /\ UNCHANGED <<metadata, input_json, wdl_str, out_def, stack, cur, nodes, left,
                   scan_d, scan_files, n1, n2, ret, wdl_doc>>

\* line 179: the loop takes the next key of calls
NextCall ==
    /\ pc = "for_call"
    /\ left > 0
    /\ \E call_name \in CallNames \ Top.seen :
          stack' = SetTop([Top EXCEPT !.call_name = call_name,
                                      !.seen = @ \cup {call_name}])
    /\ left' = left - 1
    /\ pc' = "split"
    /\ UNCHANGED <<metadata, input_json, wdl_str, out_def, cur, nodes,
                   scan_d, scan_files, n1, n2, ret, wdl_doc>>

\* line 179: calls is exhausted and __parse_calls returns
ReturnFromCalls ==
    /\ pc = "for_call"
    /\ pc' = Top.return_to
    /\ stack' = SubSeq(stack, 1, Len(stack) - 1)
    /\ UNCHANGED <<metadata, input_json, wdl_str, out_def, cur, nodes, left,
                   scan_d, scan_files, n1, n2, ret, wdl_doc>>

\* lines 180-193
ParseCallName ==
    /\ pc = "split"
    /\ LET r == SplitCallName(Top.call_name)
       IN  IF r.exc
           THEN pc' = "ValueError" /\ stack' = stack
           ELSE /\ pc' = "for_record"
                /\ stack' = SetTop([Top EXCEPT !.subworkflow_or_task_alias = r.alias])
    /\ UNCHANGED <<metadata, input_json, wdl_str, out_def, cur, nodes, left,
                   scan_d, scan_files, n1, n2, ret, wdl_doc>>

\* line 195: the loop takes the next record of call_list
NextRecord ==
    /\ pc = "for_record"
    /\ left > 0
    /\ \E c \in Records : cur' = c
    /\ left' = left - 1
    /\ pc' = "record"
    /\ UNCHANGED <<metadata, input_json, wdl_str, out_def, stack, nodes,
                   scan_d, scan_files, n1, n2, ret, wdl_doc>>

\* line 195: call_list is exhausted
EndOfCallList ==
    /\ pc = "for_record"
    /\ pc' = "for_call"
    /\ UNCHANGED <<metadata, input_json, wdl_str, out_def, stack, cur, nodes, left,
                   scan_d, scan_files, n1, n2, ret, wdl_doc>>

\* lines 196-207: a record with a subWorkflowMetadata
SubWorkflowRecord ==
    /\ pc = "record"
    /\ cur.subWorkflowMetadata
    /\ stack' = PushFrame(stack, cur)
    /\ pc' = "parse_calls"
    /\ UNCHANGED <<metadata, input_json, wdl_str, out_def, cur, nodes, left,
                   scan_d, scan_files, n1, n2, ret, wdl_doc>>

\* lines 196-251: a record without one
LeafRecord ==
    /\ pc = "record"
    /\ ~cur.subWorkflowMetadata
    /\ nodes' = nodes \o <<TaskNode(Top, cur)>> \o OutputNodes(Top, cur)
    /\ pc' = "for_record"
    /\ UNCHANGED <<metadata, input_json, wdl_str, out_def, stack, cur, left,
                   scan_d, scan_files, n1, n2, ret, wdl_doc>>

\* lines 108 and 123-140
ParseInputJson ==
    /\ pc = "parse_input"
    /\ nodes' = nodes \o InputNodes(input_json)
    /\ pc' = "done"
    /\ UNCHANGED <<metadata, input_json, wdl_str, out_def, stack, cur, left,
                   scan_d, scan_files, n1, n2, ret, wdl_doc>>

\* the caller of find_files_in_dict nests its argument once more
Nest ==
    /\ pc = "scan"
    /\ left > 0
    /\ scan_d' \in Wrap(scan_d)
    /\ left' = left - 1
    /\ UNCHANGED <<pc, metadata, input_json, wdl_str, out_def, stack, cur, nodes,
                   scan_files, n1, n2, ret, wdl_doc>>

\* a direct call find_files_in_dict(d)
Scan ==
    /\ pc = "scan"
    /\ scan_files' = find_files_in_dict(scan_d, <<>>, <<>>)
    /\ pc' = "scanned"
    /\ UNCHANGED <<metadata, input_json, wdl_str, out_def, stack, cur, nodes, left,
                   scan_d, n1, n2, ret, wdl_doc>>

\* a direct call is_parent_cmnode(n1, n2)
CallIsParent ==
    /\ pc = "pred"
    /\ ret' = is_parent_cmnode(n1, n2)
    /\ pc' = "returned"
    /\ UNCHANGED <<metadata, input_json, wdl_str, out_def, stack, cur, nodes, left,
                   scan_d, scan_files, n1, n2, wdl_doc>>

---------------------------------------------------------------------------
(* Specifications *)

Idle ==
    /\ input_json = None /\ wdl_str = None /\ out_def = None
    /\ cur = NoRecord /\ nodes = <<>>
    /\ scan_d = Number /\ scan_files = <<>>
    /\ n1 = NoNode /\ n2 = NoNode /\ ret = "none"

\* the construction of a CromwellMetadata from a metadata document
Init ==
    /\ pc = "init"
    /\ \/ /\ metadata = Metadata(W, None)
          /\ wdl_doc = NoDoc
       \/ \E i \in InputDocs :
             /\ metadata = Metadata(W, Submitted(i, SourceText(<<>>)))
             /\ wdl_doc = WdlDoc(ParseOutcome_ok, <<>>)
    /\ stack = <<>>
    /\ left = MaxElems
    /\ Idle

ParseCalls ==
    \/ ParseCallsEntry
    \/ NextCall
    \/ ReturnFromCalls
    \/ ParseCallName
    \/ NextRecord
    \/ EndOfCallList
    \/ SubWorkflowRecord
    \/ LeafRecord

Next ==
    \/ InitSubmitted
    \/ InitDetached
    \/ ParseCalls
    \/ ParseInputJson

Spec == Init /\ [][Next]_vars

\* the construction of a CromwellMetadata from the metadata of a top-level
\* run, over the workflow sources and the outcomes of parse_document; the
\* calls document is a short one
InitOutDef ==
    /\ pc = "init"
    /\ \/ /\ metadata = Metadata(W, None)
          /\ wdl_doc = NoDoc
       \/ \E lines \in SeqsUpTo(LineTable, MaxLines), o \in ParseOutcomes :
             /\ metadata = Metadata(W, Submitted(Dict(<<Item(Ka, Str(P1))>>),
                                                 SourceText(lines)))
             /\ wdl_doc = WdlDoc(o, lines)
    /\ stack = <<>>
    /\ left = MaxElems - 3
    /\ Idle

SpecOutDef == InitOutDef /\ [][Next]_vars

\* the chains a direct call of __parse_calls is given
EntryChains == {<<>>, <<Some(W)>>, <<Some(W), None>>, <<Some(W), Some(Ka)>>}

EntryShardIndices == {<<>>, <<0>>}

\* a direct call of __parse_calls
InitParser ==
    /\ pc = "parse_calls"
    /\ metadata = Metadata(W, None)
    /\ wdl_doc = NoDoc
    /\ \E chain \in EntryChains, shards \in EntryShardIndices :
          stack = <<Frame(chain, shards, "returned")>>
    /\ left = MaxElems
    /\ Idle

SpecParser == InitParser /\ [][ParseCalls]_vars

\* a direct call of find_files_in_dict
InitScan ==
    /\ pc = "scan"
    /\ metadata = Metadata(W, None)
    /\ wdl_doc = NoDoc
    /\ stack = <<>>
    /\ left = MaxDepth
    /\ input_json = None /\ wdl_str = None /\ out_def = None
    /\ cur = NoRecord /\ nodes = <<>>
    /\ scan_d \in Scalars /\ scan_files = <<>>
    /\ n1 = NoNode /\ n2 = NoNode /\ ret = "none"

NextScan == Nest \/ Scan

SpecScan == InitScan /\ [][NextScan]_vars

\* a direct call of is_parent_cmnode
InitPred ==
    /\ pc = "pred"
    /\ metadata = Metadata(W, None)
    /\ wdl_doc = NoDoc
    /\ stack = <<>>
    /\ left = 0
    /\ input_json = None /\ wdl_str = None /\ out_def = None
    /\ cur = NoRecord /\ nodes = <<>>
    /\ scan_d = Number /\ scan_files = <<>>
    /\ n1 \in PredNodes /\ n2 \in PredNodes /\ ret = "none"

SpecPred == InitPred /\ [][CallIsParent]_vars

---------------------------------------------------------------------------
(* What the claims speak of *)

RECURSIVE Flatten(_)
Flatten(seqs) == IF seqs = <<>> THEN <<>> ELSE Head(seqs) \o Flatten(Tail(seqs))

RECURSIVE ScalarsOf(_, _)
\* the scalars of structure d in traversal order, each with the steps that
\* lead to it: a key for a mapping, a position for a sequence
ScalarsOf(d, path) ==
    IF d.kind \in {"dict", "list"}
    THEN Flatten([i \in 1..Len(d.items) |->
                     ScalarsOf(d.items[i].v,
                               Append(path, [key |-> d.kind = "dict",
                                             k |-> d.items[i].k, pos |-> i - 1]))])
    ELSE <<[path |-> path, v |-> d]>>

IsKeyStep(step) == step.key

IsPosStep(step) == ~step.key

IsLocator(x) == x.v.kind = "str" /\ IsValidURI(x.v.val)

\* the triple the scanner is to return for a scalar
TripleOf(x) ==
    LET keys == SelectSeq(x.path, IsKeyStep)
        poss == SelectSeq(x.path, IsPosStep)
    IN  << join([i \in 1..Len(keys) |-> keys[i].k], "."),
           x.v.val,
           IF poss = <<>> THEN <<-1>> ELSE [i \in 1..Len(poss) |-> poss[i].pos] >>

\* the triples the scanner is to return for structure d
TriplesOf(d) ==
    LET found == SelectSeq(ScalarsOf(d, <<>>), IsLocator)
    IN  [i \in 1..Len(found) |-> TripleOf(found[i])]

Variants == {"task", "output"}

\* the nodes a step has added
Added == SubSeq(nodes', Len(nodes) + 1, Len(nodes'))

\* C1 as stated: is_parent_cmnode called with two task nodes or two output
\* nodes raises and never returns false.
C1_SameVariantRaises ==
    (pc = "returned" /\ n1.type \in Variants /\ n2.type = n1.type) => ret = "ValueError"

\* C1 amended: is_parent_cmnode called with two task nodes or two output
\* nodes returns false; it raises exactly when one of the two nodes is
\* neither a task node nor an output node.
C1_SameVariantIsFalse ==
    pc = "returned" =>
        /\ (n1.type \in Variants /\ n2.type = n1.type) => ret = "False"
        /\ ret = "ValueError" <=> (n1.type \notin Variants \/ n2.type \notin Variants)

C1_Witness ==
    pc = "returned" /\ n1.type = "task" /\ n2.type = "task" /\ ret = "False"

\* C2: for a task node T and an output node O, is_parent_cmnode(T, O) is true
\* iff the task names and the shard indices are equal, and
\* is_parent_cmnode(O, T) is true iff O.output_path is the locator of a triple
\* of T's inputs (false when T has none), whatever the shard indices.
C2_ParentIff ==
    pc = "returned" =>
        /\ (n1.type = "task" /\ n2.type = "output") =>
              /\ ret \in {"True", "False"}
              /\ ret = "True" <=>
                    (n1.task_name = n2.task_name /\ n1.shard_idx = n2.shard_idx)
        /\ (n1.type = "output" /\ n2.type = "task") =>
              /\ ret \in {"True", "False"}
              /\ ret = "True" <=>
                    /\ n2.all_inputs # None
                    /\ \E i \in 1..Len(n2.all_inputs[1]) :
                          n2.all_inputs[1][i][2] = n1.output_path[1]

C2_Witness ==
    /\ pc = "returned" /\ n1.type = "output" /\ n2.type = "task"
    /\ ret = "True" /\ n1.shard_idx # n2.shard_idx

\* C3: find_files_in_dict returns, in traversal order, one triple per string
\* the validator accepts and nothing else; the field path is the dot-join of
\* the keys on the way, the list index the positions on the way, (-1,) when
\* there is none; an empty structure gives an empty result.
C3_ScanResult ==
    pc = "scanned" => scan_files = TriplesOf(scan_d)

C3_Witness ==
    /\ pc = "scanned"
    /\ scan_d = Dict(<<Item(Ka, Dict(<<Item(Kb, List(<<Str(P1), Str(NotAPath)>>))>>))>>)
    /\ scan_files = << <<(<<"a", ".", "b">>), P1, <<0>> >> >>

IsPresent(wf) == wf # None

\* the name C4 gives the task of a leaf record: every entry of the chain and
\* the alias that is not absent, joined by dots
NameOfPresent(frame) ==
    LET present == SelectSeq(Append(frame.parent_workflows,
                                    frame.subworkflow_or_task_alias), IsPresent)
    IN  join([i \in 1..Len(present) |-> present[i][1]], ".")

\* the same with the empty entries left out as well
NameOfNonEmpty(frame) ==
    LET present == SelectSeq(Append(frame.parent_workflows,
                                    frame.subworkflow_or_task_alias), Truthy)
    IN  join([i \in 1..Len(present) |-> present[i][1]], ".")

\* the nodes of a leaf record, given the name of its task
LeafNodesAre(name) ==
    LET outs == IF cur.outputs = None THEN <<>> ELSE TriplesOf(cur.outputs[1])
        shard == Top.parent_workflow_shard_indices \o <<cur.shardIndex>>
    IN  /\ Len(Added) = 1 + Len(outs)
        /\ nodes' = nodes \o Added
        /\ Added[1].type = "task"
        /\ Added[1].task_name = Some(name)
        /\ Added[1].shard_idx = shard
        /\ \A i \in 1..Len(outs) :
              /\ Added[i + 1].type = "output"
              /\ Added[i + 1].task_name = Some(name)
              /\ Added[i + 1].shard_idx = shard
              /\ Added[i + 1].output_name = Some(outs[i][1])
              /\ Added[i + 1].output_path = Some(outs[i][2])

\* C4: a leaf record inserts one task node, named by the dot-join of every
\* non-absent entry of the ancestor chain and the alias, with the shard
\* indices of the ancestors and its own, and then one output node per locator
\* of its outputs with the same name and shard indices, the field path as
\* output_name and the locator as output_path.
C4_LeafNodes ==
    [][(pc = "record" /\ ~cur.subWorkflowMetadata) => LeafNodesAre(NameOfPresent(Top))]_vars

\* What the code does for C4: the entries that are absent or empty are left
\* out of the name.
C4_LeafNodesNonEmpty ==
    [][(pc = "record" /\ ~cur.subWorkflowMetadata) => LeafNodesAre(NameOfNonEmpty(Top))]_vars

Min(a, b) == IF a < b THEN a ELSE b

\* C5: a record with a nested sub-record adds no node; the recursive parse
\* gets the chain extended by the alias (absent for a scatter subworkflow)
\* and the shard indices extended by the record's shardIndex; the chains of
\* the calls already running are never changed.
C5_ChainsByValue ==
    [][/\ (pc = "record" /\ cur.subWorkflowMetadata) =>
             /\ nodes' = nodes
             /\ Len(stack') = Len(stack) + 1
             /\ stack'[Len(stack')].parent_workflows =
                   Top.parent_workflows \o <<Top.subworkflow_or_task_alias>>
             /\ stack'[Len(stack')].parent_workflow_shard_indices =
                   Top.parent_workflow_shard_indices \o <<cur.shardIndex>>
       /\ \A k \in 1..Min(Len(stack), Len(stack')) :
             /\ stack'[k].parent_workflows = stack[k].parent_workflows
             /\ stack'[k].parent_workflow_shard_indices =
                   stack[k].parent_workflow_shard_indices]_vars

\* a leaf inside a sub-workflow, and after it a leaf of a sibling record of
\* the enclosing call, whose chains are shorter
C5_Witness ==
    \E i, j \in 1..Len(nodes) :
        /\ i < j
        /\ nodes[i].type = "task" /\ nodes[j].type = "task"
        /\ Len(nodes[j].shard_idx) < Len(nodes[i].shard_idx)
        /\ Len(nodes[j].task_name[1]) < Len(nodes[i].task_name[1])

DotCount(name) == Cardinality({i \in 1..Len(name) : name[i] = "."})

Malformed(name) ==
    \/ DotCount(name) >= 2
    \/ /\ DotCount(name) = 0
       /\ \/ Len(name) < 9
          \/ SubSeq(name, 1, 9) # <<"S", "c", "a", "t", "t", "e", "r", "A", "t">>

\* C6: at every nesting level a call identifier of three or more segments,
\* or of one segment that does not start with ScatterAt, makes the parse fail
\* before any record of the call is read; so does an empty chain at the entry;
\* the failure ends the parse.
C6_StructuralError ==
    [][/\ (pc = "split" /\ Malformed(Top.call_name)) => pc' = "ValueError"
       /\ (pc = "parse_calls" /\ Top.parent_workflows = <<>>) => pc' = "ValueError"
       /\ pc = "ValueError" => pc' = "ValueError"]_vars

C6_Witness ==
    /\ pc = "ValueError"
    /\ Len(stack) >= 2
    /\ DotCount(Top.call_name) = 0

\* the lookup has run
Looked == pc # "init" /\ metadata.submittedFiles # None

KeyPresent ==
    /\ wdl_doc.result = "ok"
    /\ \E i \in 1..Len(wdl_doc.meta) : wdl_doc.meta[i].k = "croo_out_def"

StoredVal ==
    wdl_doc.meta[CHOOSE i \in 1..Len(wdl_doc.meta) : wdl_doc.meta[i].k = "croo_out_def"].v

HasVal(line) == line.val # None

\* the value of the first source line that carries one
CommentVal ==
    LET hits == SelectSeq(wdl_doc.lines, HasVal)
    IN  IF hits = <<>> THEN None ELSE hits[1].val

\* C7 as stated: the lookup returns the value stored under the meta key
\* whenever the key is present, and the value of the first matching source
\* line with a non-empty value only when it is not.
C7_MetaFirst ==
    Looked => out_def = IF KeyPresent THEN StoredVal ELSE CommentVal

\* C7 amended: the lookup returns the value stored under the meta key
\* whenever the key is present with a value other than null, even when a
\* source comment matches too; when the key is not present or its value is
\* null it returns the value of the first matching source line with a
\* non-empty value, and absence when there is none.
C7_NonNullMetaFirst ==
    Looked => out_def = IF KeyPresent /\ StoredVal # None THEN StoredVal ELSE CommentVal

C7_Witness ==
    /\ pc = "done"
    /\ KeyPresent /\ StoredVal # None /\ CommentVal # None
    /\ out_def = StoredVal

\* C8 as stated: the lookup returns absence when neither the meta block nor
\* the source text yields a result and when parsing the source fails; no
\* failure of the lookup stops the construction.
C8_FailureIsAbsence ==
    Looked =>
        /\ pc # "Exception"
        /\ (wdl_doc.result = "error" \/ (~KeyPresent /\ CommentVal = None)) => out_def = None

\* C8 amended: a failure to parse the source is absorbed and counts as a
\* missing meta key: the lookup then returns the value of the first matching
\* source line, and absence only when no line matches; it returns absence
\* exactly when neither the meta block nor the source text yields a value.
\* The construction goes on to parse the calls from the same state whatever
\* the lookup found.
C8_FailureIsAbsorbed ==
    [][(pc = "init" /\ metadata.submittedFiles # None) =>
          /\ pc' = "parse_calls"
          /\ nodes' = nodes
          /\ stack' = <<Frame(<<Some(metadata.workflowName)>>, <<>>, "parse_input")>>
          /\ wdl_doc.result = "error" => out_def' = CommentVal
          /\ out_def' = None <=>
                (~(KeyPresent /\ StoredVal # None) /\ CommentVal = None)]_vars

C8_Witness ==
    /\ pc = "done"
    /\ wdl_doc.result = "error"
    /\ CommentVal # None
    /\ out_def = CommentVal

\* C9 as stated: every node emitted for a locator of the inputs document is
\* an output node without a task and with an empty shard_idx, and no task
\* node is its parent.
C9_InputNodesNoShard ==
    [][pc = "parse_input" =>
          \A i \in 1..Len(Added) :
              /\ Added[i].type = "output"
              /\ Added[i].task_name = None
              /\ Added[i].shard_idx = <<>>
              /\ \A k \in 1..Len(nodes') :
                    nodes'[k].type = "task" => is_parent_cmnode(nodes'[k], Added[i]) = "False"]_vars

\* C9 amended: the inputs document gives one output node per locator, without
\* a task, whose shard_idx is the list index of the locator: (-1,) outside any
\* list, the positions in the enclosing lists otherwise; no task node is its
\* parent.
C9_InputNodesListIndex ==
    [][pc = "parse_input" =>
          LET files == IF metadata.submittedFiles = None THEN <<>>
                       ELSE TriplesOf(metadata.submittedFiles[1].inputs)
          IN  /\ nodes' = nodes \o Added
              /\ Len(Added) = Len(files)
              /\ \A i \in 1..Len(Added) :
                    /\ Added[i].type = "output"
                    /\ Added[i].task_name = None
                    /\ Added[i].output_name = Some(files[i][1])
                    /\ Added[i].output_path = Some(files[i][2])
                    /\ Added[i].shard_idx = files[i][3]
                    /\ \A k \in 1..Len(nodes') :
                          nodes'[k].type = "task" =>
                              is_parent_cmnode(nodes'[k], Added[i]) = "False"]_vars

C9_Witness ==
    /\ pc = "done"
    /\ \E i, j, k \in 1..Len(nodes) :
          /\ nodes[i].type = "task"
          /\ nodes[j].task_name = None /\ nodes[j].shard_idx = <<2, 0>>
          /\ nodes[k].task_name = None /\ nodes[k].shard_idx = <<-1>>

\* output node o is one of the declared outputs of task node t
Declares(t, o) ==
    /\ t.all_outputs # None
    /\ \E i \in 1..Len(t.all_outputs[1]) : t.all_outputs[1][i][2] = o.output_path[1]

SameTask(t, u) == t.task_name = u.task_name /\ t.shard_idx = u.shard_idx

TaskIndices == {i \in 1..Len(nodes) : nodes[i].type = "task"}

OutputIndices == {i \in 1..Len(nodes) : nodes[i].type = "output"}

\* C10 as stated: whenever the predicate makes task node T the parent of
\* output node O, O is one of T's declared outputs.
C10_ParentDeclares ==
    \A t \in TaskIndices, o \in OutputIndices :
        is_parent_cmnode(nodes[t], nodes[o]) = "True" => Declares(nodes[t], nodes[o])

\* C10 amended: whenever the predicate makes task node T the parent of output
\* node O, O is a declared output of a task node with the name and shard_idx
\* of T: of T itself when no other task node has them, possibly of another
\* one when several invocation records compose the same name and shard_idx.
C10_ParentSharesDeclarer ==
    \A t \in TaskIndices, o \in OutputIndices :
        is_parent_cmnode(nodes[t], nodes[o]) = "True" =>
            /\ \E u \in TaskIndices :
                  SameTask(nodes[u], nodes[t]) /\ Declares(nodes[u], nodes[o])
            /\ (\A u \in TaskIndices : SameTask(nodes[u], nodes[t]) => u = t)
                  => Declares(nodes[t], nodes[o])

C10_Witness ==
    \E t, u \in TaskIndices, o \in OutputIndices :
        /\ t # u
        /\ SameTask(nodes[t], nodes[u])
        /\ is_parent_cmnode(nodes[t], nodes[o]) = "True"
        /\ ~Declares(nodes[t], nodes[o])
        /\ Declares(nodes[u], nodes[o])

====
